---- MODULE Spec2Model ----
(***************************************************************************)
(* Model of spotify-playlist-creator.py: the reconciliation of a desired   *)
(* song list (songs.txt) against a Spotify playlist.                       *)
(*                                                                         *)
(* Text is modelled as a sequence of tokens (words, single spaces, the     *)
(* dash, whole parentheticals), so that lower-casing, splitting on the     *)
(* first dash, stripping and the regular-expression clean-ups are carried  *)
(* out on the text rather than assumed.                                    *)
(***************************************************************************)
EXTENDS Integers, Sequences, FiniteSets, TLC

VARIABLES
    songs_list,      \* main: the lines of songs.txt, in order
    remote,          \* the playlist held by the service: a sequence of tracks
    update_mode,     \* select_update_mode's answer
    pc,              \* position of the program
    desired_songs,   \* build_song_maps: dict of the desired songs
    playlist_songs,  \* build_song_maps: dict of the playlist's tracks
    actions,         \* determine_required_actions' result
    target_pos,      \* process_playlist: the loop's index (0-based)
    current_tracks,  \* process_playlist: the snapshot last read
    track_id,        \* process_playlist: search_song's answer
    last_pos,        \* process_playlist: index the appended track is taken from
    not_found,       \* main: what execute_actions returned
    verify_result,   \* main: what verify_playlist returned
    search_ok,       \* history: every search so far returned a track with the song's key
    unresolved,      \* history: the lines for which search_song returned None
    fail_kind,       \* history: the remote call that raised last ("none" if none did)
    fails,           \* history: number of remote calls that raised
    fail_pos,        \* history: target_pos when the last call raised (-1 if none did)
    run,             \* history: number of the current run of main
    mutations,       \* history: mutating remote calls issued in the current run
    matched0,        \* history: the playlist matched the list when the run began
    remote0,         \* history: the playlist when the run began
    calls,           \* history: the playlist calls and the sleeps of the run, in order
    sorted_count,    \* sort_playlist: how many songs have been sorted
    missing_songs,   \* sort_playlist: the lines not found in the playlist
    s_song,          \* search_song: the line searched for
    s_st,            \* search_song: attempt, query index, done, result
    s_log            \* history: the calls of sp.search made and their outcomes

vars == <<songs_list, remote, update_mode, pc, desired_songs, playlist_songs,
          actions, target_pos, current_tracks, track_id, last_pos, not_found,
          verify_result, search_ok, unresolved, fail_kind, fails, fail_pos,
          run, mutations, matched0, remote0, calls, sorted_count, missing_songs,
          s_song, s_st, s_log>>

\* ------------------------------------------------------------------ bounds
MaxSongs == 2
MaxRemote == 2

\* -------------------------------------------------------------------- text
SP == " "
DASH == "-"

\* str.lower() on one token
LowerTok(t) ==
    CASE t = "Queen" -> "queen"
      [] t = "Beatles" -> "beatles"
      [] t = "ABBA" -> "abba"
      [] t = "Rhapsody" -> "rhapsody"
      [] t = "Let" -> "let"
      [] t = "Dancing" -> "dancing"
      [] t = "Remastered" -> "remastered"
      [] t = "Blink" -> "blink"
      [] t = "Song" -> "song"
      [] t = "(Live)" -> "(live)"
      [] t = "(Remastered 2011)" -> "(remastered 2011)"
      [] OTHER -> t

lower(s) == [i \in 1..Len(s) |-> LowerTok(s[i])]

RECURSIVE lstrip(_)
lstrip(s) == IF s # <<>> /\ Head(s) = SP THEN lstrip(Tail(s)) ELSE s

RECURSIVE rstrip(_)
rstrip(s) ==
    IF s # <<>> /\ s[Len(s)] = SP THEN rstrip(SubSeq(s, 1, Len(s) - 1)) ELSE s

strip(s) == rstrip(lstrip(s))

\* index of the first dash of s, 0 when s holds none
DashPos(s) ==
    IF \E i \in 1..Len(s) : s[i] = DASH
    THEN CHOOSE i \in 1..Len(s) : s[i] = DASH /\ \A j \in 1..(i - 1) : s[j] # DASH
    ELSE 0

\* [x.strip() for x in song.split('-', 1)] unpacks into two names only when
\* the line holds a dash; otherwise the unpacking raises ValueError
HasSeparator(song) == DashPos(song) # 0
split_artist(song) == strip(SubSeq(song, 1, DashPos(song) - 1))
split_title(song) == strip(SubSeq(song, DashPos(song) + 1, Len(song)))

\* the parentheticals (already lower-cased) that one of the patterns
\* \(live\), \(remaster(ed)?\s*\d*\), ... of clean_song_title matches
IsNoiseParen(t) == t \in {"(live)", "(remastered 2011)"}
IsDigits(t) == t \in {"2011"}

\* first index >= i of s that holds no space (Len(s) + 1 when there is none)
RECURSIVE SkipSpaces(_, _)
SkipSpaces(s, i) ==
    IF i <= Len(s) /\ s[i] = SP THEN SkipSpaces(s, i + 1) ELSE i

\* last index of a match of -\s*remaster(ed)?\s*\d* starting at i, 0 if none
MatchDashRemaster(s, i) ==
    IF s[i] # DASH THEN 0
    ELSE LET j == SkipSpaces(s, i + 1) IN
         IF j <= Len(s) /\ s[j] \in {"remaster", "remastered"}
         THEN LET k == SkipSpaces(s, j + 1) IN
              IF k <= Len(s) /\ IsDigits(s[k]) THEN k ELSE k - 1
         ELSE 0

\* last index of a match of -\s*single\s*version starting at i, 0 if none
MatchDashSingle(s, i) ==
    IF s[i] # DASH THEN 0
    ELSE LET j == SkipSpaces(s, i + 1) IN
         IF j <= Len(s) /\ s[j] = "single"
         THEN LET k == SkipSpaces(s, j + 1) IN
              IF k <= Len(s) /\ s[k] = "version" THEN k ELSE 0
         ELSE 0

\* re.sub(pattern, '', s) for the two dash patterns, scanning from index i
RECURSIVE SubDashRemaster(_, _)
SubDashRemaster(s, i) ==
    IF i > Len(s) THEN <<>>
    ELSE LET e == MatchDashRemaster(s, i) IN
         IF e = 0 THEN <<s[i]>> \o SubDashRemaster(s, i + 1)
         ELSE SubDashRemaster(s, e + 1)

RECURSIVE SubDashSingle(_, _)
SubDashSingle(s, i) ==
    IF i > Len(s) THEN <<>>
    ELSE LET e == MatchDashSingle(s, i) IN
         IF e = 0 THEN <<s[i]>> \o SubDashSingle(s, i + 1)
         ELSE SubDashSingle(s, e + 1)

SubNoiseParens(s) == SelectSeq(s, LAMBDA t : ~IsNoiseParen(t))

clean_song_title(title) ==
    strip(SubDashSingle(SubDashRemaster(SubNoiseParens(lower(title)), 1), 1))

\* f"{artist.lower()}-{clean_song_title(title)}"
make_key(artist, title) == lower(artist) \o <<DASH>> \o clean_song_title(title)

\* f"{artist} - {name}"
full_name(track) == track.artist \o <<SP, DASH, SP>> \o track.name

\* ----------------------------------------------------------------- inputs
\* the tracks of the runs of the whole program
Catalog ==
    { [id |-> "q1", artist |-> <<"Queen">>, name |-> <<"Rhapsody">>],
      [id |-> "q2", artist |-> <<"Queen">>,
       name |-> <<"Rhapsody", SP, "(Remastered 2011)">>],
      [id |-> "b1", artist |-> <<"Beatles">>, name |-> <<"Let">>] }

\* the tracks the maps and the verifier are also applied to
AllTracks ==
    Catalog \cup
    { [id |-> "b2", artist |-> <<"Beatles">>,
       name |-> <<"Let", SP, DASH, SP, "Remastered", SP, "2011">>],
      [id |-> "a1", artist |-> <<"ABBA">>, name |-> <<"Dancing">>] }

\* the lines of songs.txt in the runs of the whole program
Lines ==
    { <<"Queen", SP, DASH, SP, "Rhapsody">>,
      <<"Beatles", SP, DASH, SP, "Let">>,
      <<"NoDashHere">> }

\* the lines the maps and the verifier are also applied to
AllLines ==
    Lines \cup
    { <<"queen", SP, DASH, SP, "Rhapsody", SP, "(Live)">>,
      <<"ABBA", SP, DASH, SP, "Dancing">> }

SeqsUpTo(S, n) == UNION { [1..k -> S] : k \in 0..n }

\* ------------------------------------------------------------------ dicts
\* A Python dict: a sequence of [key, val] entries in insertion order;
\* assigning to a key already present replaces its value in place.
KeyIndex(d, k) ==
    IF \E i \in 1..Len(d) : d[i].key = k
    THEN CHOOSE i \in 1..Len(d) : d[i].key = k
    ELSE 0

HasKey(d, k) == KeyIndex(d, k) # 0
Get(d, k) == d[KeyIndex(d, k)].val
Keys(d) == { d[i].key : i \in 1..Len(d) }

dict_set(d, k, v) ==
    IF HasKey(d, k) THEN [d EXCEPT ![KeyIndex(d, k)].val = v]
    ELSE Append(d, [key |-> k, val |-> v])

\* -------------------------------------------------------- build_song_maps
\* the loop over enumerate(songs_list), from (1-based) index i on
RECURSIVE build_desired(_, _, _)
build_desired(songs, i, acc) ==
    IF i > Len(songs) THEN acc
    ELSE LET song == songs[i] IN
         IF HasSeparator(song)
         THEN build_desired(songs, i + 1,
                  dict_set(acc, make_key(split_artist(song), split_title(song)),
                           [position |-> i - 1,
                            artist |-> split_artist(song),
                            title |-> split_title(song),
                            original |-> song]))
         ELSE build_desired(songs, i + 1, acc)

\* the loop over the pages of sp.playlist_tracks, followed to the last page
RECURSIVE build_playlist(_, _, _)
build_playlist(tracks, i, acc) ==
    IF i > Len(tracks) THEN acc
    ELSE build_playlist(tracks, i + 1,
             dict_set(acc, make_key(tracks[i].artist, tracks[i].name),
                      [id |-> tracks[i].id,
                       position |-> i - 1,
                       name |-> tracks[i].name,
                       artist |-> tracks[i].artist]))

build_song_maps(tracks, songs) ==
    [desired |-> build_desired(songs, 1, <<>>),
     playlist |-> build_playlist(tracks, 1, <<>>)]

\* --------------------------------------------- determine_required_actions
\* mutant: only a track that sits too far down is moved
needs_move_down_only(current_pos, desired_pos) == current_pos > desired_pos

needs_move(current_pos, desired_pos) == current_pos # desired_pos

\* mutant: the membership test of the removals is inverted
RECURSIVE find_removals_inverted(_, _, _)
find_removals_inverted(desired, playlist, i) ==
    IF i > Len(playlist) THEN <<>>
    ELSE (IF HasKey(desired, playlist[i].key) THEN <<playlist[i].val>> ELSE <<>>)
         \o find_removals_inverted(desired, playlist, i + 1)

RECURSIVE find_removals(_, _, _)
find_removals(desired, playlist, i) ==
    IF i > Len(playlist) THEN <<>>
    ELSE (IF ~HasKey(desired, playlist[i].key) THEN <<playlist[i].val>> ELSE <<>>)
         \o find_removals(desired, playlist, i + 1)

RECURSIVE find_adds(_, _, _)
find_adds(desired, playlist, i) ==
    IF i > Len(desired) THEN <<>>
    ELSE (IF ~HasKey(playlist, desired[i].key) THEN <<desired[i].val>> ELSE <<>>)
         \o find_adds(desired, playlist, i + 1)

RECURSIVE find_moves(_, _, _)
find_moves(desired, playlist, i) ==
    IF i > Len(desired) THEN <<>>
    ELSE (IF HasKey(playlist, desired[i].key)
             /\ needs_move(Get(playlist, desired[i].key).position,
                           desired[i].val.position)
          THEN << [id |-> Get(playlist, desired[i].key).id,
                   from_pos |-> Get(playlist, desired[i].key).position,
                   to_pos |-> desired[i].val.position,
                   name |-> Get(playlist, desired[i].key).name] >>
          ELSE <<>>)
         \o find_moves(desired, playlist, i + 1)

determine_required_actions(desired, playlist) ==
    [remove |-> find_removals(desired, playlist, 1),
     add |-> find_adds(desired, playlist, 1),
     move |-> find_moves(desired, playlist, 1)]

\* --------------------------------------------------- normalize_artist_name
\* lines 129-137: the entries of the table whose words the inputs hold; a
\* key is the correct name, the value its variations
replacements ==
    << [key |-> <<"blink", DASH, "182">>,
        val |-> {<<"blink", SP, "182">>, <<"blink182">>, <<"blink">>}],
       [key |-> <<"a", DASH, "ha">>,
        val |-> {<<"aha">>, <<"a", SP, "ha">>}] >>

\* lines 141-143 and 149-151: the first correct name of the table that the
\* name is, or is a variation of; else the fallback
RECURSIVE lookup_artist(_, _, _)
lookup_artist(name, i, fallback) ==
    IF i > Len(replacements) THEN fallback
    ELSE IF name \in replacements[i].val \/ name = lower(replacements[i].key)
    THEN replacements[i].key
    ELSE lookup_artist(name, i + 1, fallback)

\* re.sub(r'[^\w\s]', ' ', artist): the dash is the one token that is
\* neither a word nor a space
sub_special(s) == [i \in 1..Len(s) |-> IF s[i] = DASH THEN SP ELSE s[i]]

\* re.sub(r'\s+', ' ', s): a space that follows a space is dropped
RECURSIVE collapse_spaces(_)
collapse_spaces(s) ==
    IF Len(s) < 2 THEN s
    ELSE IF s[1] = SP /\ s[2] = SP THEN collapse_spaces(Tail(s))
    ELSE <<s[1]>> \o collapse_spaces(Tail(s))

NotInTable == <<"?">>

normalize_artist_name(artist) ==
    LET name == strip(lower(artist))
        cleaned_artist == strip(collapse_spaces(sub_special(name)))
        exact == lookup_artist(name, 1, NotInTable)
    IN IF exact # NotInTable THEN exact
       ELSE lookup_artist(cleaned_artist, 1, cleaned_artist)

\* ------------------------------------------------------------ search_song
max_retries == 3
None == "None"
\* an outcome of one call of sp.search: it raises, or it returns the list
\* results['tracks']['items']
Raised == [raised |-> TRUE, items |-> <<>>]
Found(items) == [raised |-> FALSE, items |-> items]
QUOTE == "\""

IsParen(t) == t \in {"(Live)", "(live)", "(Remastered 2011)", "(remastered 2011)"}

\* re.sub(r'\s*\([^)]*\)', '', s), scanning from index i
RECURSIVE SubParens(_, _)
SubParens(s, i) ==
    IF i > Len(s) THEN <<>>
    ELSE LET j == SkipSpaces(s, i) IN
         IF j <= Len(s) /\ IsParen(s[j]) THEN SubParens(s, j + 1)
         ELSE <<s[i]>> \o SubParens(s, i + 1)

\* re.sub(r'\s*-\s*.*$', '', s): everything from the spaces before the first
\* dash to the end
SubFromDash(s) ==
    IF \E i \in 1..Len(s) : SkipSpaces(s, i) <= Len(s) /\ s[SkipSpaces(s, i)] = DASH
    THEN LET i == CHOOSE i \in 1..Len(s) :
                    /\ SkipSpaces(s, i) <= Len(s) /\ s[SkipSpaces(s, i)] = DASH
                    /\ \A j \in 1..(i - 1) :
                         ~(SkipSpaces(s, j) <= Len(s) /\ s[SkipSpaces(s, j)] = DASH)
         IN SubSeq(s, 1, i - 1)
    ELSE s

search_clean(title) == SubFromDash(SubParens(title, 1))

\* the four queries, in order of specificity
queries(artist, title) ==
    LET clean_title == search_clean(title) IN
    << <<QUOTE>> \o clean_title \o <<QUOTE, SP>> \o artist,
       clean_title \o <<SP>> \o artist,
       <<"track:", QUOTE>> \o clean_title \o <<QUOTE>>,
       clean_title >>

is_exact_match(track, artist, title) ==
    /\ lower(search_clean(track.name)) = lower(search_clean(title))
    /\ lower(track.artist) = lower(artist)

\* lines 181-196: the first exact match of items, else the first item
RECURSIVE scan_exact(_, _, _, _)
scan_exact(items, i, artist, title) ==
    IF i > Len(items) THEN items[1].id
    ELSE IF is_exact_match(items[i], artist, title) THEN items[i].id
    ELSE scan_exact(items, i + 1, artist, title)

\* mutant: the scan for an exact match is left out
pick_match_first_only(items, artist, title) == items[1].id

pick_match(items, artist, title) == scan_exact(items, 1, artist, title)

SearchStart == [attempt |-> 0, query |-> 1, done |-> FALSE, result |-> None]

\* what a raising call leads to (lines 201-206)
on_search_error(st) ==
    IF st.attempt = max_retries - 1
    THEN [st EXCEPT !.done = TRUE, !.result = None]
    ELSE [st EXCEPT !.attempt = st.attempt + 1, !.query = 1]

\* one call of sp.search and what search_song does with its outcome
search_step(st, artist, title, outcome) ==
    IF outcome.raised THEN on_search_error(st)
    ELSE IF outcome.items # <<>>
    THEN [st EXCEPT !.done = TRUE,
                    !.result = pick_match(outcome.items, artist, title)]
    ELSE IF st.query < 4 THEN [st EXCEPT !.query = st.query + 1]
    ELSE [st EXCEPT !.done = TRUE, !.result = None]

\* search_song against a service whose c-th call has the outcome oracle[c]
RECURSIVE search_run(_, _, _, _, _)
search_run(st, artist, title, oracle, c) ==
    IF st.done THEN st.result
    ELSE search_run(search_step(st, artist, title, oracle[c]), artist, title,
                    oracle, c + 1)

search_song(artist, title, oracle) == search_run(SearchStart, artist, title, oracle, 1)

\* -------------------------------------------------------- verify_playlist
\* lines 314-337: the positions of the zip that are appended to mismatches
position_matches(track, expected_song) ==
    /\ HasSeparator(expected_song)
    /\ lower(clean_song_title(track.name))
         = lower(clean_song_title(split_title(expected_song)))
    /\ lower(track.artist) = lower(split_artist(expected_song))

mismatches(tracks, songs) ==
    SelectSeq([i \in 1..Len(songs) |-> i],
              LAMBDA i : ~position_matches(tracks[i], songs[i]))

\* mutant: the lengths are not compared, zip stops at the shorter sequence
verify_playlist_no_length_check(tracks, songs) ==
    LET n == IF Len(tracks) < Len(songs) THEN Len(tracks) ELSE Len(songs) IN
    [ok |-> mismatches(tracks, SubSeq(songs, 1, n)) = <<>>, compared |-> n]

\* ok: the value returned; compared: the positions the loop looked at
verify_playlist(tracks, songs) ==
    IF Len(tracks) # Len(songs) THEN [ok |-> FALSE, compared |-> 0]
    ELSE [ok |-> mismatches(tracks, songs) = <<>>, compared |-> Len(songs)]

\* ------------------------------------------------------ the remote service
PageSize == 3
MaxCand == 2
MaxFail == 1
MaxRuns == 2

Min(a, b) == IF a < b THEN a ELSE b

TrackOf(id) == CHOOSE t \in Catalog : t.id = id

\* sp.playlist_tracks(playlist_id) without sp.next: the first page only
first_page(tracks) == SubSeq(tracks, 1, Min(Len(tracks), PageSize))

\* sp.playlist_tracks followed by sp.next until results['next'] is empty
all_pages(tracks) == tracks

\* sp.playlist_reorder_items(playlist_id, range_start, insert_before) is
\* refused by the service when an index lies outside the playlist
reorder_accepts(tracks, range_start, insert_before) ==
    /\ 0 <= range_start /\ range_start < Len(tracks)
    /\ 0 <= insert_before /\ insert_before <= Len(tracks)

\* the playlist after the track at range_start is taken out and put before
\* the track that was at insert_before (indices 0-based)
reorder_items(tracks, range_start, insert_before) ==
    LET t == tracks[range_start + 1]
        rest == SubSeq(tracks, 1, range_start)
                  \o SubSeq(tracks, range_start + 2, Len(tracks))
        at == IF insert_before > range_start THEN insert_before - 1
              ELSE insert_before
    IN SubSeq(rest, 1, at) \o <<t>> \o SubSeq(rest, at + 1, Len(rest))

\* sp.playlist_add_items(playlist_id, [track_id])
add_items(tracks, id) == Append(tracks, TrackOf(id))

\* sp.playlist_remove_all_occurrences_of_items(playlist_id, track_ids)
remove_all_occurrences(tracks, ids) ==
    SelectSeq(tracks, LAMBDA t : \A i \in 1..Len(ids) : ids[i] # t.id)

\* ------------------------------------------------------- process_playlist
\* lines 612-613: the index (0-based) of the first track of the snapshot
\* whose full name is the desired line, -1 when there is none
same_song(track, desired_song) == full_name(track) = desired_song

find_existing(tracks, desired_song) ==
    IF \E i \in 1..Len(tracks) : same_song(tracks[i], desired_song)
    THEN (CHOOSE i \in 1..Len(tracks) :
             /\ same_song(tracks[i], desired_song)
             /\ \A j \in 1..(i - 1) : ~same_song(tracks[j], desired_song)) - 1
    ELSE -1

desired_song == songs_list[target_pos + 1]

\* line 639: len([x for x in results['items'] if x['track']]) - 1
appended_index(tracks) == Len(first_page(tracks)) - 1

\* lines 651-655: the ids the cleanup removes, none when the page is not
\* longer than the list
cleanup_count == Len(songs_list)

extra_ids(tracks) ==
    LET page == first_page(tracks) IN
    IF Len(page) > cleanup_count
    THEN [i \in 1..(Len(page) - cleanup_count) |-> page[cleanup_count + i].id]
    ELSE <<>>

\* a returned list of songs, or Python's None
NoneValue == [none |-> TRUE, songs |-> <<>>]
ListValue(songs) == [none |-> FALSE, songs |-> songs]

\* process_playlist has no return statement
process_playlist_result == NoneValue

\* line 210: the truth value of the actions dict, which always has three keys
actions_truthy(a) == DOMAIN a # {}

\* mutant: the exception of a move or an append is not caught
loop_error_pc_uncaught == "aborted"

\* where an exception raised by a remote call leads
loop_error_pc == "loop"        \* caught at 620-621 and 645-646, then line 648
remove_error_pc == "report"    \* caught at 658-659
read_error_pc == "aborted"     \* lines 76, 595, 651, 404, 292: not caught

\* the oracles of a run: the service answers every query of one search with
\* the same candidates and does not raise
RunOracles ==
    { [c \in 1..(4 * max_retries) |-> Found(items)] :
        items \in SeqsUpTo(Catalog, MaxCand) }

carries_key(id, song) ==
    /\ id # None
    /\ make_key(TrackOf(id).artist, TrackOf(id).name)
         = make_key(split_artist(song), split_title(song))

\* same length and the same key at every index
KeyMatches(tracks, songs) ==
    /\ Len(tracks) = Len(songs)
    /\ \A i \in 1..Len(songs) :
         /\ HasSeparator(songs[i])
         /\ make_key(tracks[i].artist, tracks[i].name)
              = make_key(split_artist(songs[i]), split_title(songs[i]))

\* ----------------------------------------------------------------- states
NoDict == <<>>
NoActions == [remove |-> <<>>, add |-> <<>>, move |-> <<>>]
NoVerdict == [ok |-> FALSE, compared |-> 0]
NoSong == <<>>

\* an entry of calls: a call of the playlist API or of time.sleep, and the
\* target position it was made at (-1 outside the loop of process_playlist)
Call(op, at) == [op |-> op, at |-> at]

\* the entries of a call of sp.playlist_reorder_items in the loop: the sleep
\* that follows the call (619, 642) is skipped when the call raises, the
\* sleep that ends the iteration (648) is not
reorder_calls(accepted, at) ==
    IF accepted
    THEN <<Call("reorder_items", at), Call("sleep", at), Call("sleep", at)>>
    ELSE <<Call("reorder_items", at), Call("sleep", at)>>

searchVars == <<s_song, s_st, s_log>>
sortVars == <<sorted_count, missing_songs>>
planVars == <<desired_songs, playlist_songs, actions>>
histVars == <<search_ok, unresolved, fail_kind, fails, fail_pos, run, matched0,
              remote0>>

InitRest ==
    /\ desired_songs = NoDict
    /\ playlist_songs = NoDict
    /\ actions = NoActions
    /\ target_pos = 0
    /\ current_tracks = <<>>
    /\ track_id = None
    /\ last_pos = 0
    /\ not_found = ListValue(<<>>)
    /\ verify_result = NoVerdict
    /\ search_ok = TRUE
    /\ unresolved = {}
    /\ fail_kind = "none"
    /\ fails = 0
    /\ fail_pos = -1
    /\ run = 1
    /\ mutations = 0
    /\ calls = <<>>
    /\ sorted_count = 0
    /\ missing_songs = <<>>
    /\ s_song = NoSong
    /\ s_st = SearchStart
    /\ s_log = <<>>

Init ==
    /\ songs_list \in SeqsUpTo(Lines, MaxSongs)
    /\ remote \in SeqsUpTo(Catalog, MaxRemote)
    /\ update_mode \in {1, 2, 3}
    /\ pc = "main"
    /\ matched0 = KeyMatches(remote, songs_list)
    /\ remote0 = remote
    /\ InitRest

\* main, lines 685-687: build the maps and determine the required actions
Plan ==
    /\ pc = "main"
    /\ LET maps == build_song_maps(all_pages(remote), songs_list) IN
       /\ desired_songs' = maps.desired
       /\ playlist_songs' = maps.playlist
       /\ actions' = determine_required_actions(maps.desired, maps.playlist)
    /\ pc' = "execute"
    /\ UNCHANGED <<songs_list, remote, update_mode, target_pos, current_tracks,
                   track_id, last_pos, not_found, verify_result, mutations>>
    /\ UNCHANGED <<histVars, searchVars>>
    /\ calls' = Append(calls, Call("tracks_all_pages", -1))
    /\ UNCHANGED sortVars

\* execute_actions, lines 208-212
ExecuteActions ==
    /\ pc = "execute"
    /\ IF actions_truthy(actions)
       THEN pc' = "loop" /\ target_pos' = 0 /\ UNCHANGED not_found
       ELSE pc' = "report" /\ not_found' = ListValue(<<>>) /\ UNCHANGED target_pos
    /\ UNCHANGED <<songs_list, remote, update_mode, current_tracks, track_id,
                   last_pos, verify_result, mutations>>
    /\ UNCHANGED <<planVars, histVars, searchVars>>
    /\ UNCHANGED calls
    /\ UNCHANGED sortVars

\* lines 590-608: the fresh snapshot of one iteration
ReadPlaylist ==
    /\ pc = "loop"
    /\ target_pos < Len(songs_list)
    /\ current_tracks' = all_pages(remote)
    /\ pc' = "place"
    /\ UNCHANGED <<songs_list, remote, update_mode, target_pos, track_id,
                   last_pos, not_found, verify_result, mutations>>
    /\ UNCHANGED <<planVars, histVars, searchVars>>
    /\ calls' = Append(calls, Call("tracks_all_pages", target_pos))
    /\ UNCHANGED sortVars

\* lines 610-625, the song is in the snapshot: move it unless it is in place
PlaceExisting ==
    /\ pc = "place"
    /\ LET current_pos == find_existing(current_tracks, desired_song) IN
       /\ current_pos # -1
       /\ IF current_pos # target_pos
          THEN /\ mutations' = mutations + 1
               /\ calls' = calls \o reorder_calls(
                      reorder_accepts(remote, current_pos, target_pos), target_pos)
               /\ remote' = IF reorder_accepts(remote, current_pos, target_pos)
                            THEN reorder_items(remote, current_pos, target_pos)
                            ELSE remote
          ELSE /\ calls' = Append(calls, Call("sleep", target_pos))
               /\ UNCHANGED <<remote, mutations>>
    /\ pc' = "loop"
    /\ target_pos' = target_pos + 1
    /\ UNCHANGED <<songs_list, update_mode, current_tracks, track_id, last_pos,
                   not_found, verify_result>>
    /\ UNCHANGED <<planVars, histVars, searchVars>>
    /\ UNCHANGED sortVars

\* lines 627-632 and 643-646, the song is not in the snapshot: search for it
SearchMissing ==
    /\ pc = "place"
    /\ find_existing(current_tracks, desired_song) = -1
    /\ IF ~HasSeparator(desired_song)
       THEN /\ pc' = "loop"
            /\ target_pos' = target_pos + 1
            /\ calls' = Append(calls, Call("sleep", target_pos))
            /\ UNCHANGED <<track_id, search_ok, unresolved>>
       ELSE \E oracle \in RunOracles :
            LET id == search_song(split_artist(desired_song),
                                  split_title(desired_song), oracle) IN
            /\ track_id' = id
            /\ search_ok' = (search_ok /\ carries_key(id, desired_song))
            /\ IF id = None
               THEN /\ unresolved' = unresolved \cup {desired_song}
                    /\ pc' = "loop"
                    /\ target_pos' = target_pos + 1
                    /\ calls' = Append(calls, Call("sleep", target_pos))
               ELSE /\ pc' = "append"
                    /\ UNCHANGED <<unresolved, target_pos, calls>>
    /\ UNCHANGED <<songs_list, remote, update_mode, current_tracks, last_pos,
                   not_found, verify_result, mutations>>
    /\ UNCHANGED <<planVars, fail_kind, fails, fail_pos, run, matched0, remote0,
                   searchVars>>
    /\ UNCHANGED sortVars

\* lines 633-635: add the track found to the end
AddItems ==
    /\ pc = "append"
    /\ remote' = add_items(remote, track_id)
    /\ mutations' = mutations + 1
    /\ pc' = "read_last"
    /\ UNCHANGED <<songs_list, update_mode, target_pos, current_tracks, track_id,
                   last_pos, not_found, verify_result>>
    /\ UNCHANGED <<planVars, histVars, searchVars>>
    /\ calls' = calls \o <<Call("add_items", target_pos), Call("sleep", target_pos)>>
    /\ UNCHANGED sortVars

\* lines 638-639: where the track is taken to have been added
ReadLast ==
    /\ pc = "read_last"
    /\ last_pos' = appended_index(remote)
    /\ pc' = "move_new"
    /\ UNCHANGED <<songs_list, remote, update_mode, target_pos, current_tracks,
                   track_id, not_found, verify_result, mutations>>
    /\ UNCHANGED <<planVars, histVars, searchVars>>
    /\ calls' = Append(calls, Call("tracks_first_page", target_pos))
    /\ UNCHANGED sortVars

\* lines 640-642 and 648: move it to the target position
MoveNew ==
    /\ pc = "move_new"
    /\ mutations' = mutations + 1
    /\ remote' = IF reorder_accepts(remote, last_pos, target_pos)
                 THEN reorder_items(remote, last_pos, target_pos)
                 ELSE remote
    /\ pc' = "loop"
    /\ target_pos' = target_pos + 1
    /\ UNCHANGED <<songs_list, update_mode, current_tracks, track_id, last_pos,
                   not_found, verify_result>>
    /\ UNCHANGED <<planVars, histVars, searchVars>>
    /\ calls' = calls \o reorder_calls(reorder_accepts(remote, last_pos, target_pos),
                                       target_pos)
    /\ UNCHANGED sortVars

\* lines 650-653: the read of the cleanup
CleanupRead ==
    /\ pc = "loop"
    /\ target_pos = Len(songs_list)
    /\ current_tracks' = first_page(remote)
    /\ IF extra_ids(remote) # <<>>
       THEN pc' = "remove" /\ UNCHANGED not_found
       ELSE pc' = "report" /\ not_found' = process_playlist_result
    /\ UNCHANGED <<songs_list, remote, update_mode, target_pos, track_id,
                   last_pos, verify_result, mutations>>
    /\ UNCHANGED <<planVars, histVars, searchVars>>
    /\ calls' = Append(calls, Call("tracks_first_page", -1))
    /\ UNCHANGED sortVars

\* lines 654-657: remove the extra tracks, then return to main
RemoveExtras ==
    /\ pc = "remove"
    /\ remote' = remove_all_occurrences(remote, extra_ids(remote))
    /\ mutations' = mutations + 1
    /\ pc' = "report"
    /\ not_found' = process_playlist_result
    /\ UNCHANGED <<songs_list, update_mode, target_pos, current_tracks, track_id,
                   last_pos, verify_result>>
    /\ UNCHANGED <<planVars, histVars, searchVars>>
    /\ calls' = Append(calls, Call("remove_all_occurrences", -1))
    /\ UNCHANGED sortVars

\* main, lines 698-708: the validation file, then the choice of verifying
GenerateValidationFile ==
    /\ pc = "report"
    /\ pc' = IF update_mode = 3 THEN "verify" ELSE "done"
    /\ UNCHANGED <<songs_list, remote, update_mode, target_pos, current_tracks,
                   track_id, last_pos, not_found, verify_result, mutations>>
    /\ UNCHANGED <<planVars, histVars, searchVars>>
    /\ calls' = Append(calls, Call("tracks_all_pages", -1))
    /\ UNCHANGED sortVars

\* main, lines 708-712
VerifyPlaylist ==
    /\ pc = "verify"
    /\ verify_result' = verify_playlist(all_pages(remote), songs_list)
    /\ pc' = "done"
    /\ UNCHANGED <<songs_list, remote, update_mode, target_pos, current_tracks,
                   track_id, last_pos, not_found, mutations>>
    /\ UNCHANGED <<planVars, histVars, searchVars>>
    /\ calls' = Append(calls, Call("tracks_all_pages", -1))
    /\ UNCHANGED sortVars

Next ==
    \/ Plan
    \/ ExecuteActions
    \/ ReadPlaylist
    \/ PlaceExisting
    \/ SearchMissing
    \/ AddItems
    \/ ReadLast
    \/ MoveNew
    \/ CleanupRead
    \/ RemoveExtras
    \/ GenerateValidationFile
    \/ VerifyPlaylist

Spec == Init /\ [][Next]_vars

\* ------------------------------------------------- remote calls that raise
\* Each remote call may raise; at most MaxFail calls do in one behaviour.
Fail(kind) ==
    /\ fails < MaxFail
    /\ fails' = fails + 1
    /\ fail_kind' = kind
    /\ fail_pos' = target_pos

failFrame == <<songs_list, update_mode, current_tracks, track_id, last_pos,
               verify_result, search_ok, unresolved, run, matched0, remote0>>

\* sp.playlist_tracks raises outside any try: lines 76, 595, 651, 404, 292
ReadFails ==
    /\ \/ pc = "main"
       \/ pc = "loop"
       \/ pc = "report"
       \/ pc = "verify"
    /\ Fail("read")
    /\ pc' = read_error_pc
    /\ UNCHANGED <<remote, target_pos, not_found, mutations>>
    /\ UNCHANGED <<failFrame, planVars, searchVars>>
    /\ calls' = Append(calls,
           IF pc = "loop" /\ target_pos < Len(songs_list)
           THEN Call("tracks_all_pages", target_pos)
           ELSE IF pc = "loop" THEN Call("tracks_first_page", -1)
           ELSE Call("tracks_all_pages", -1))
    /\ UNCHANGED sortVars

\* line 617 raises: caught at 620, the iteration ends
MoveExistingFails ==
    /\ pc = "place"
    /\ find_existing(current_tracks, desired_song) \notin {-1, target_pos}
    /\ Fail("move")
    /\ mutations' = mutations + 1
    /\ pc' = loop_error_pc
    /\ target_pos' = target_pos + 1
    /\ UNCHANGED <<remote, not_found>>
    /\ UNCHANGED <<failFrame, planVars, searchVars>>
    /\ calls' = calls \o reorder_calls(FALSE, target_pos)
    /\ UNCHANGED sortVars

\* line 634, 638 or 640 raises: caught at 645, the iteration ends
AddOrMoveNewFails ==
    /\ \/ /\ pc = "append" /\ Fail("append") /\ mutations' = mutations + 1
          /\ calls' = calls \o <<Call("add_items", target_pos),
                                  Call("sleep", target_pos)>>
       \/ /\ pc = "read_last" /\ Fail("read_last") /\ UNCHANGED mutations
          /\ calls' = calls \o <<Call("tracks_first_page", target_pos),
                                  Call("sleep", target_pos)>>
       \/ /\ pc = "move_new" /\ Fail("move") /\ mutations' = mutations + 1
          /\ calls' = calls \o reorder_calls(FALSE, target_pos)
    /\ pc' = loop_error_pc
    /\ target_pos' = target_pos + 1
    /\ UNCHANGED <<remote, not_found>>
    /\ UNCHANGED <<failFrame, planVars, searchVars>>
    /\ UNCHANGED sortVars

\* line 656 raises: caught at 658, process_playlist returns
RemoveExtrasFails ==
    /\ pc = "remove"
    /\ Fail("remove")
    /\ mutations' = mutations + 1
    /\ pc' = remove_error_pc
    /\ not_found' = process_playlist_result
    /\ UNCHANGED <<remote, target_pos>>
    /\ UNCHANGED <<failFrame, planVars, searchVars>>
    /\ calls' = Append(calls, Call("remove_all_occurrences", -1))
    /\ UNCHANGED sortVars

NextFail ==
    \/ Next
    \/ ReadFails
    \/ MoveExistingFails
    \/ AddOrMoveNewFails
    \/ RemoveExtrasFails

SpecFail == Init /\ [][NextFail]_vars

\* ------------------------------------------------------------ a second run
\* main is started again on the playlist the run before left
Rerun ==
    /\ pc = "done"
    /\ run < MaxRuns
    /\ run' = run + 1
    /\ pc' = "main"
    /\ matched0' = KeyMatches(remote, songs_list)
    /\ desired_songs' = NoDict
    /\ playlist_songs' = NoDict
    /\ actions' = NoActions
    /\ target_pos' = 0
    /\ current_tracks' = <<>>
    /\ track_id' = None
    /\ last_pos' = 0
    /\ not_found' = ListValue(<<>>)
    /\ verify_result' = NoVerdict
    /\ search_ok' = TRUE
    /\ unresolved' = {}
    /\ mutations' = 0
    /\ remote0' = remote
    /\ calls' = <<>>
    /\ UNCHANGED <<songs_list, remote, update_mode, fail_kind, fails, fail_pos,
                   searchVars>>
    /\ UNCHANGED sortVars

NextRerun == Next \/ Rerun

SpecRerun == Init /\ [][NextRerun]_vars

\* ------------------------------------------------ the maps and the actions
InitPlan ==
    /\ songs_list \in SeqsUpTo(AllLines, MaxSongs)
    /\ remote \in SeqsUpTo(AllTracks, MaxRemote)
    /\ update_mode \in {1, 2, 3}
    /\ pc = "main"
    /\ matched0 = KeyMatches(remote, songs_list)
    /\ remote0 = remote
    /\ InitRest

SpecPlan == InitPlan /\ [][Plan]_vars

\* ----------------------------------------- the maps, on artists with aliases
AliasTracks ==
    { [id |-> "q1", artist |-> <<"Queen">>, name |-> <<"Rhapsody">>],
      [id |-> "k1", artist |-> <<"blink", DASH, "182">>, name |-> <<"Song">>],
      [id |-> "k2", artist |-> <<"Blink", SP, "182">>,
       name |-> <<"Song", SP, "(Live)">>] }

AliasLines ==
    { <<"Queen", SP, DASH, SP, "Rhapsody">>,
      <<"blink", SP, "182", SP, DASH, SP, "Song">>,
      <<"blink182", SP, DASH, SP, "Song">> }

InitAlias ==
    /\ songs_list \in SeqsUpTo(AliasLines, MaxSongs)
    /\ remote \in SeqsUpTo(AliasTracks, MaxRemote)
    /\ update_mode \in {1, 2, 3}
    /\ pc = "main"
    /\ matched0 = KeyMatches(remote, songs_list)
    /\ remote0 = remote
    /\ InitRest

SpecAlias == InitAlias /\ [][Plan]_vars

\* ------------------------------------ a playlist that holds the list's songs
\* the lines and the tracks of the runs on a playlist that is a permutation
\* of the list: each line is the full name of one track
PermLines ==
    { <<"Queen", SP, DASH, SP, "Rhapsody">>,
      <<"Beatles", SP, DASH, SP, "Let">>,
      <<"ABBA", SP, DASH, SP, "Dancing">> }

PermTracks == { t \in AllTracks : full_name(t) \in PermLines }

IsPermutation(tracks, songs) ==
    /\ Len(tracks) = Len(songs)
    /\ \A j \in 1..Len(songs) : \E i \in 1..Len(tracks) : full_name(tracks[i]) = songs[j]

InitPerm ==
    /\ songs_list \in { l \in SeqsUpTo(PermLines, Cardinality(PermLines)) :
                           \A i, j \in 1..Len(l) : i # j => l[i] # l[j] }
    /\ remote \in { r \in [1..Len(songs_list) -> PermTracks] :
                       IsPermutation(r, songs_list) }
    /\ update_mode \in {1, 2, 3}
    /\ pc = "main"
    /\ matched0 = KeyMatches(remote, songs_list)
    /\ remote0 = remote
    /\ InitRest

\* every song is found in the snapshot: nothing is searched, added or removed
NextPerm ==
    \/ Plan
    \/ ExecuteActions
    \/ ReadPlaylist
    \/ PlaceExisting
    \/ CleanupRead
    \/ GenerateValidationFile
    \/ VerifyPlaylist

SpecPerm == InitPerm /\ [][NextPerm]_vars

\* ----------------------------------------------------------- sort_playlist
\* lines 469-470: current_tracks.pop(current_pos) followed by
\* current_tracks.insert(sorted_count, track); list.insert past the end
\* appends
pop_insert(tracks, current_pos, at) ==
    LET track == tracks[current_pos + 1]
        rest == SubSeq(tracks, 1, current_pos)
                  \o SubSeq(tracks, current_pos + 2, Len(tracks))
        k == Min(at, Len(rest))
    IN SubSeq(rest, 1, k) \o <<track>> \o SubSeq(rest, k + 1, Len(rest))

\* lines 486-489: the ids of current_tracks[sorted_count:]
sort_extra_ids(tracks, n) ==
    IF n < Len(tracks) THEN [i \in 1..(Len(tracks) - n) |-> tracks[n + i].id]
    ELSE <<>>

sortFrame == <<songs_list, update_mode, desired_songs, playlist_songs, actions,
               track_id, last_pos, not_found, verify_result, histVars, searchVars>>

InitSort ==
    /\ songs_list \in SeqsUpTo(Lines, MaxSongs)
    /\ remote \in SeqsUpTo(Catalog, MaxRemote)
    /\ update_mode = 3
    /\ pc = "sort_playlist"
    /\ matched0 = KeyMatches(remote, songs_list)
    /\ remote0 = remote
    /\ InitRest

\* lines 431-449: the one read of the playlist
SortRead ==
    /\ pc = "sort_playlist"
    /\ current_tracks' = all_pages(remote)
    /\ missing_songs' = <<>>
    /\ sorted_count' = 0
    /\ target_pos' = 0
    /\ pc' = "sort_loop"
    /\ calls' = Append(calls, Call("tracks_all_pages", -1))
    /\ UNCHANGED <<remote, mutations, sortFrame>>

\* lines 452-482: one target position
SortPosition ==
    /\ pc = "sort_loop"
    /\ target_pos < Len(songs_list)
    /\ LET current_pos == find_existing(current_tracks, desired_song) IN
       IF current_pos = -1
       THEN /\ missing_songs' = Append(missing_songs, desired_song)
            /\ UNCHANGED <<remote, current_tracks, sorted_count, mutations, calls>>
       ELSE IF current_pos = sorted_count
       THEN /\ sorted_count' = sorted_count + 1
            /\ UNCHANGED <<remote, current_tracks, missing_songs, mutations, calls>>
       ELSE /\ mutations' = mutations + 1
            /\ calls' = Append(calls, Call("reorder_items", target_pos))
            /\ UNCHANGED missing_songs
            /\ IF reorder_accepts(remote, current_pos, sorted_count)
               THEN /\ remote' = reorder_items(remote, current_pos, sorted_count)
                    /\ current_tracks' = pop_insert(current_tracks, current_pos,
                                                    sorted_count)
                    /\ sorted_count' = sorted_count + 1
               ELSE UNCHANGED <<remote, current_tracks, sorted_count>>
    /\ target_pos' = target_pos + 1
    /\ UNCHANGED <<pc, sortFrame>>

\* lines 484-497: remove everything after the last sorted song
SortCleanup ==
    /\ pc = "sort_loop"
    /\ target_pos = Len(songs_list)
    /\ LET track_ids == sort_extra_ids(current_tracks, sorted_count) IN
       IF track_ids # <<>>
       THEN /\ remote' = remove_all_occurrences(remote, track_ids)
            /\ mutations' = mutations + 1
            /\ calls' = Append(calls, Call("remove_all_occurrences", -1))
       ELSE UNCHANGED <<remote, mutations, calls>>
    /\ pc' = "sort_done"
    /\ UNCHANGED <<target_pos, current_tracks, sortVars, sortFrame>>

NextSort ==
    \/ SortRead
    \/ SortPosition
    \/ SortCleanup

SpecSort == InitSort /\ [][NextSort]_vars

\* ---------------------------------------------------------- the verifier
InitVerify ==
    /\ songs_list \in SeqsUpTo(AllLines, MaxSongs)
    /\ remote \in SeqsUpTo(AllTracks, MaxRemote)
    /\ update_mode = 3
    /\ pc = "verify"
    /\ matched0 = KeyMatches(remote, songs_list)
    /\ remote0 = remote
    /\ InitRest

SpecVerify == InitVerify /\ [][VerifyPlaylist]_vars

\* ------------------------------------------------------------ the search
\* search_song on its own: each call of sp.search has any outcome
Outcomes == {Raised} \cup { Found(items) : items \in SeqsUpTo(Catalog, MaxCand) }

InitSearch ==
    /\ s_song \in { l \in AllLines : HasSeparator(l) }
    /\ s_st = SearchStart
    /\ s_log = <<>>
    /\ songs_list = <<>>
    /\ remote = <<>>
    /\ update_mode = 1
    /\ pc = "search_song"
    /\ matched0 = TRUE
    /\ remote0 = <<>>
    /\ calls = <<>>
    /\ sorted_count = 0
    /\ missing_songs = <<>>
    /\ desired_songs = NoDict
    /\ playlist_songs = NoDict
    /\ actions = NoActions
    /\ target_pos = 0
    /\ current_tracks = <<>>
    /\ track_id = None
    /\ last_pos = 0
    /\ not_found = ListValue(<<>>)
    /\ verify_result = NoVerdict
    /\ search_ok = TRUE
    /\ unresolved = {}
    /\ fail_kind = "none"
    /\ fails = 0
    /\ fail_pos = -1
    /\ run = 1
    /\ mutations = 0

\* line 173 and what follows it, for one query
SearchCall ==
    /\ pc = "search_song"
    /\ ~s_st.done
    /\ \E outcome \in Outcomes :
         /\ s_st' = search_step(s_st, split_artist(s_song), split_title(s_song),
                                outcome)
         /\ s_log' = Append(s_log,
                [query |-> queries(split_artist(s_song),
                                   split_title(s_song))[s_st.query],
                 outcome |-> outcome])
    /\ UNCHANGED <<songs_list, remote, update_mode, pc, target_pos, current_tracks,
                   track_id, last_pos, not_found, verify_result, mutations>>
    /\ UNCHANGED <<planVars, histVars, s_song>>
    /\ UNCHANGED calls
    /\ UNCHANGED sortVars

SpecSearch == InitSearch /\ [][SearchCall]_vars
\* ----------------------------------------------------------------- claims
Range(f) == { f[i] : i \in DOMAIN f }

line_key(song) == make_key(split_artist(song), split_title(song))
track_key(track) == make_key(track.artist, track.name)

\* every line has a separator and no two lines have the same key
DistinctWellFormed(songs) ==
    /\ \A i \in 1..Len(songs) : HasSeparator(songs[i])
    /\ \A i, j \in 1..Len(songs) : i # j => line_key(songs[i]) # line_key(songs[j])

DesiredKeys(songs) ==
    { line_key(songs[i]) : i \in { j \in 1..Len(songs) : HasSeparator(songs[j]) } }

AfterCleanup == pc \in {"report", "verify", "done"}

\* C1: a complete run over distinct, well-formed songs, in which no remote
\* call failed and every search returned a track carrying the song's key,
\* ends with the playlist equal to the list, key by key and in length.
C1_Convergence ==
    (/\ pc = "done"
     /\ fail_kind = "none"
     /\ search_ok
     /\ DistinctWellFormed(songs_list))
    => KeyMatches(remote, songs_list)

\* C2: a song is never searched for and appended when the snapshot of its
\* iteration holds a track with its key.
C2_KeyMatchNotSearched ==
    pc = "append" =>
        \A i \in 1..Len(current_tracks) :
            track_key(current_tracks[i]) # line_key(desired_song)

\* C5: after the cleanup the playlist holds no track whose key is absent
\* from the desired list.
C5_NoExtrasAfterCleanup ==
    AfterCleanup =>
        \A i \in 1..Len(remote) : track_key(remote[i]) \in DesiredKeys(songs_list)

\* C6: a run started on a playlist that matches the list computes empty add,
\* remove and move lists and issues no mutating remote call.
C6_Idempotent ==
    (run = 2 /\ matched0) =>
        /\ mutations = 0
        /\ actions = NoActions

\* C7: every song for which search_song returned None is in the list that
\* the run returns to main.
C7_NotFoundReturned ==
    AfterCleanup =>
        \A song \in unresolved :
            /\ ~not_found.none
            /\ song \in Range(not_found.songs)

\* C8: a run is aborted only by a read of the playlist that raises outside
\* the handlers; after a move or an append that raised, the loop is past the
\* position it raised at; after a remove that raised, the run is back in
\* main; and the run leaves the loop only with every position processed.
C8_BestEffort ==
    /\ pc = "aborted" => fail_kind = "read"
    /\ fail_kind \in {"move", "append"} =>
          /\ target_pos > fail_pos
          /\ pc \in {"loop", "place", "append", "read_last", "move_new",
                     "remove", "report", "verify", "done"}
    /\ fail_kind = "remove" => pc \in {"report", "verify", "done"}
    /\ pc \in {"remove", "report", "verify", "done"} => target_pos = Len(songs_list)

\* a run completed although the move of its first position raised
C8_Witness ==
    /\ pc = "done"
    /\ fail_kind = "move"
    /\ fail_pos = 0
    /\ Len(songs_list) = 2
    /\ target_pos = 2

\* ------------------------------------------------- claims about the maps
Planned == pc = "execute"

NoRepeat(seq) == \A i, j \in 1..Len(seq) : i # j => seq[i] # seq[j]

\* C3: remove holds exactly the playlist entries whose key is not desired,
\* add exactly the desired entries whose key is not in the playlist, move
\* exactly one entry (id, from_pos, to_pos, name) for each key of both maps
\* whose positions differ, and none for a key whose positions are equal.
C3_RequiredActions ==
    Planned =>
        /\ Range(actions.remove)
             = { Get(playlist_songs, k) : k \in Keys(playlist_songs) \ Keys(desired_songs) }
        /\ Range(actions.add)
             = { Get(desired_songs, k) : k \in Keys(desired_songs) \ Keys(playlist_songs) }
        /\ Range(actions.move)
             = { [id |-> Get(playlist_songs, k).id,
                  from_pos |-> Get(playlist_songs, k).position,
                  to_pos |-> Get(desired_songs, k).position,
                  name |-> Get(playlist_songs, k).name] :
                 k \in { x \in Keys(desired_songs) \cap Keys(playlist_songs) :
                           Get(playlist_songs, x).position
                             # Get(desired_songs, x).position } }
        /\ NoRepeat(actions.remove) /\ NoRepeat(actions.add) /\ NoRepeat(actions.move)
        /\ \A i \in 1..Len(actions.move) : actions.move[i].from_pos # actions.move[i].to_pos

\* all three lists are non-empty at once
C3_Witness ==
    /\ Planned
    /\ actions.remove # <<>>
    /\ actions.add # <<>>
    /\ actions.move # <<>>

\* the track at index i (1-based) is not where a desired line with its key is
Diverges(i) ==
    ~(/\ i <= Len(songs_list)
      /\ HasSeparator(songs_list[i])
      /\ line_key(songs_list[i]) = track_key(remote[i]))

\* the line at index j (1-based) is a song that no track of the playlist has
Missing(j) ==
    /\ HasSeparator(songs_list[j])
    /\ \A i \in 1..Len(remote) : track_key(remote[i]) # line_key(songs_list[j])

\* a track is in a list when an entry of the list has its id, a song when
\* an entry has its line
InRemove(i) == \E e \in Range(actions.remove) : e.id = remote[i].id
InMove(i) == \E m \in Range(actions.move) : m.id = remote[i].id
InAdd(j) == \E e \in Range(actions.add) : e.original = songs_list[j]

RemoveKeys == { make_key(e.artist, e.name) : e \in Range(actions.remove) }
AddKeys == { make_key(e.artist, e.title) : e \in Range(actions.add) }
MoveKeys == { track_key(remote[m.from_pos + 1]) : m \in Range(actions.move) }

DescribesEveryDivergence ==
    /\ RemoveKeys \cap AddKeys = {}
    /\ RemoveKeys \cap MoveKeys = {}
    /\ AddKeys \cap MoveKeys = {}
    /\ \A i \in 1..Len(remote) : Diverges(i) => (InRemove(i) # InMove(i))
    /\ \A j \in 1..Len(songs_list) : Missing(j) => InAdd(j)

NoKeyCollision ==
    /\ \A i, j \in 1..Len(remote) :
         i # j => track_key(remote[i]) # track_key(remote[j])
    /\ \A i, j \in 1..Len(songs_list) :
         (i # j /\ HasSeparator(songs_list[i]) /\ HasSeparator(songs_list[j]))
           => line_key(songs_list[i]) # line_key(songs_list[j])

\* C4 as stated: for any list and any playlist, also with keys shared, the
\* three lists are pairwise disjoint and every diverging track and every
\* missing song is in exactly one of them.
C4_AnySnapshot == Planned => DescribesEveryDivergence

\* C4 as amended: the same, for a list and a playlist in which no two lines
\* and no two tracks have the same key.
C4_DistinctKeys == (Planned /\ NoKeyCollision) => DescribesEveryDivergence

\* distinct keys, with a track to remove, a track to move and a song to add
C4_Witness ==
    /\ Planned
    /\ NoKeyCollision
    /\ \E i \in 1..Len(remote) : Diverges(i) /\ InRemove(i)
    /\ \E i \in 1..Len(remote) : Diverges(i) /\ InMove(i)
    /\ \E j \in 1..Len(songs_list) : Missing(j)

\* ------------------------------------------------ claims about the search
NoRaise == \A i \in 1..Len(s_log) : ~s_log[i].outcome.raised

ExactIndices(items) ==
    { i \in 1..Len(items) :
        is_exact_match(items[i], split_artist(s_song), split_title(s_song)) }

\* C9: when no call raises, the calls made are the four queries in order, as
\* far as the first one with candidates; the result is the id of the first
\* exact match of that list, else of its first candidate; it is None exactly
\* when all four queries had no candidate.
C9_SearchLadder ==
    (pc = "search_song" /\ NoRaise) =>
        LET n == Len(s_log)
            qs == queries(split_artist(s_song), split_title(s_song))
        IN /\ n <= 4
           /\ \A i \in 1..n : s_log[i].query = qs[i]
           /\ \A i \in 1..(n - 1) : s_log[i].outcome.items = <<>>
           /\ s_st.done <=> (n >= 1 /\ (s_log[n].outcome.items # <<>> \/ n = 4))
           /\ s_st.done =>
                LET items == s_log[n].outcome.items IN
                IF items = <<>> THEN s_st.result = None
                ELSE /\ s_st.result # None
                     /\ s_st.result =
                          IF ExactIndices(items) # {}
                          THEN items[CHOOSE i \in ExactIndices(items) :
                                       \A j \in ExactIndices(items) : i <= j].id
                          ELSE items[1].id
           /\ ~s_st.done => s_st.result = None

\* the third query is the first with candidates, and the exact match is not
\* the first of them
C9_Witness ==
    /\ pc = "search_song"
    /\ NoRaise
    /\ s_st.done
    /\ Len(s_log) = 3
    /\ Len(s_log[3].outcome.items) = 2
    /\ ExactIndices(s_log[3].outcome.items) = {2}
    /\ s_st.result = s_log[3].outcome.items[2].id

\* ---------------------------------------------- claims about the verifier
SamePosition(i) ==
    /\ HasSeparator(songs_list[i])
    /\ lower(remote[i].artist) = lower(split_artist(songs_list[i]))
    /\ clean_song_title(remote[i].name) = clean_song_title(split_title(songs_list[i]))

Verified == pc = "done" /\ run = 1 /\ update_mode = 3 /\ fail_kind = "none"

valid_lines(songs) == SelectSeq(songs, HasSeparator)

\* C11: a line without a separator is left out of the desired map, and the
\* entries of the map and the actions are those obtained from the list with
\* that line deleted.
C11_InvalidLineIgnored ==
    Planned =>
        LET maps == build_song_maps(all_pages(remote), valid_lines(songs_list)) IN
        /\ \A i \in 1..Len(desired_songs) :
             HasSeparator(desired_songs[i].val.original)
        /\ desired_songs = maps.desired
        /\ actions = determine_required_actions(maps.desired, maps.playlist)

\* --------------------------------------------- claims about artist aliases
\* the line at index j and the track at index i (1-based) are one song by
\* makeKey: the same normalized artist and the same cleaned title
SameNormalizedKey(j, i) ==
    /\ HasSeparator(songs_list[j])
    /\ normalize_artist_name(split_artist(songs_list[j]))
         = normalize_artist_name(remote[i].artist)
    /\ clean_song_title(split_title(songs_list[j]))
         = clean_song_title(remote[i].name)

\* C12: a desired line and a track of the playlist whose artists normalize
\* to the same name, an alias and the canonical name included, and whose
\* cleaned titles are equal lead to no add of the line and no remove of the
\* track.
C12_AliasSameKey ==
    Planned =>
        \A j \in 1..Len(songs_list), i \in 1..Len(remote) :
            SameNormalizedKey(j, i) => (~InAdd(j) /\ ~InRemove(i))

\* ------------------------------------------- claims about the update mode
CallsOf(op) == { i \in 1..Len(calls) : calls[i].op = op }

\* C13: in update modes 1 and 2 the run issues no remove call; extra tracks
\* are removed in mode 3 only.
C13_NoRemoveInAddModes ==
    update_mode \in {1, 2} => CallsOf("remove_all_occurrences") = {}

\* ------------------------------------------------ claims about minimality
\* index (1-based) of the line that is the track's full name
desired_index(track, songs) ==
    CHOOSE j \in 1..Len(songs) : songs[j] = full_name(track)

\* the tracks at the indices S follow each other as their lines do
InDesiredOrder(S, tracks, songs) ==
    \A a, b \in S :
        a < b => desired_index(tracks[a], songs) < desired_index(tracks[b], songs)

\* length of the longest subsequence of tracks that is in the list's order
LongestInOrder(tracks, songs) ==
    LET sizes == { Cardinality(S) : S \in { T \in SUBSET (1..Len(tracks)) :
                                              InDesiredOrder(T, tracks, songs) } }
    IN CHOOSE n \in sizes : \A m \in sizes : m <= n

\* the least number of single-track moves that put tracks in the list's order
MinMoves(tracks, songs) == Len(tracks) - LongestInOrder(tracks, songs)

\* C14: on a playlist that is a permutation of the list, the number of move
\* calls of the run is the least number of single-track moves that turn the
\* playlist's order into the list's: its length minus the length of the
\* longest subsequence already in the list's order.
C14_MinimalMoves ==
    (pc = "done" /\ IsPermutation(remote0, songs_list)) =>
        Cardinality(CallsOf("reorder_items")) = MinMoves(remote0, songs_list)

\* ------------------------------------------ claims about the placement pass
\* no reorder call was refused: each is followed by its two sleeps
NoRefusedMove ==
    \A i \in CallsOf("reorder_items") :
        /\ i + 2 <= Len(calls)
        /\ calls[i + 1].op = "sleep"
        /\ calls[i + 2].op = "sleep"

\* the loop over the target positions has ended, no track was added and no
\* call failed
PlacementDone ==
    /\ pc = "loop"
    /\ target_pos = Len(songs_list)
    /\ NoRepeat(songs_list)
    /\ CallsOf("add_items") = {}
    /\ NoRefusedMove

\* the lines of the list that a track of the playlist has as its full name
\* (the test of line 613), in the list's order
ExistingLines ==
    SelectSeq(songs_list,
              LAMBDA l : \E i \in 1..Len(remote) : same_song(remote[i], l))

MovesAt(p) == { i \in CallsOf("reorder_items") : calls[i].at = p }

\* C15: after the pass over all target positions, with no failed call, the
\* playlist begins with the songs of the list that it holds, in the list's
\* order (a missing song takes no place), and each song was moved at most
\* once.
C15_PlacementPass ==
    PlacementDone =>
        /\ \A k \in 1..Len(ExistingLines) : full_name(remote[k]) = ExistingLines[k]
        /\ \A p \in 0..(Len(songs_list) - 1) : Cardinality(MovesAt(p)) <= 1

\* ------------------------------------------ claims about the insertion pass
\* the target positions whose snapshot was read and looked through before
\* the i-th call
PlacedBefore(i) ==
    { calls[k].at : k \in { k \in 1..(i - 1) : /\ calls[k].op = "tracks_all_pages"
                                               /\ calls[k].at >= 0 } }

\* C16: no append is issued before the placement has gone through every
\* target position 0..n-1 of the list.
C16_PhaseSeparation ==
    \A i \in CallsOf("add_items") : PlacedBefore(i) = 0..(Len(songs_list) - 1)

\* the iteration that has just ended appended a track and issued the move
InsertedAt(p) ==
    \E i \in CallsOf("add_items") : \E k \in CallsOf("reorder_items") :
        calls[i].at = p /\ calls[k].at = p /\ i < k

JustInserted == pc = "loop" /\ target_pos > 0 /\ InsertedAt(target_pos - 1)

\* C17: once a missing song that the search resolved has been appended and
\* moved, the track at its target position is the track added, also when
\* songs before it were not found.
C17_InsertionStep ==
    JustInserted =>
        /\ Len(remote) >= target_pos
        /\ remote[target_pos].id = track_id

\* --------------------------------------------- claims about the snapshots
\* C18: the index a track is moved from, the index of the appended track
\* and the ids the cleanup removes are taken from a snapshot that holds
\* every track of the playlist.
C18_FullSnapshots ==
    /\ pc = "place" => current_tracks = remote
    /\ pc = "move_new" => last_pos = Len(remote) - 1
    /\ pc = "remove" => current_tracks = remote

\* ------------------------------------------ claims about the settling delay
IsMutation(c) == c.op \in {"add_items", "reorder_items", "remove_all_occurrences"}
IsRead(c) == c.op \in {"tracks_all_pages", "tracks_first_page"}

\* C19: between a mutating call (append, move, remove) and the next read of
\* the playlist in the same run there is a sleep, the reads of the report
\* and of the verifier after the cleanup's remove included.
C19_SettlingDelay ==
    \A i, j \in 1..Len(calls) :
        (i < j /\ IsMutation(calls[i]) /\ IsRead(calls[j])) =>
            \E k \in (i + 1)..(j - 1) : calls[k].op = "sleep"

\* ------------------------------------------- claims about the search retry
Ladder == queries(split_artist(s_song), split_title(s_song))

RaisesOf(q) == { i \in 1..Len(s_log) : s_log[i].query = q /\ s_log[i].outcome.raised }

Tried(q) == \E i \in 1..Len(s_log) : s_log[i].query = q

\* C20: a query that raises is retried at most max_retries times, and when
\* its retries are used up the later queries of the ladder are still tried:
\* search_song answers None only after every query of the ladder was tried.
C20_RetryPerQuery ==
    /\ \A n \in 1..4 : Cardinality(RaisesOf(Ladder[n])) <= max_retries
    /\ (s_st.done /\ s_st.result = None) => \A n \in 1..4 : Tried(Ladder[n])

\* ------------------------------------- claims about retrying a mutating call
AddsAt(p) == { i \in CallsOf("add_items") : calls[i].at = p }

\* C21: a move, an append or a remove that raises is issued again before the
\* action is given up: once the step of a call that raised is over, the
\* call was made more than once.
C21_MutationRetried ==
    /\ (fail_kind = "move" /\ target_pos > fail_pos) =>
           Cardinality(MovesAt(fail_pos)) > 1
    /\ (fail_kind = "append" /\ target_pos > fail_pos) =>
           Cardinality(AddsAt(fail_pos)) > 1
    /\ (fail_kind = "remove" /\ pc \in {"report", "verify", "done"}) =>
           Cardinality(CallsOf("remove_all_occurrences")) > 1

\* ------------------------------------ claims about the desired positions
DesiredPositions == { desired_songs[i].val.position : i \in 1..Len(desired_songs) }

\* C22: the positions stored in the desired map are exactly 0..n-1, n being
\* the number of entries of the map, also for a list with invalid lines or
\* with several lines of one key.
C22_ContiguousPositions ==
    Planned => DesiredPositions = 0..(Len(desired_songs) - 1)

\* ------------------------------------------------ claims about the cleanup
\* the track at index k (1-based) of the cleanup's snapshot is the song of
\* line k: it has the line's key
PlacedBeforeCleanup(k) ==
    /\ HasSeparator(songs_list[k])
    /\ track_key(current_tracks[k]) = line_key(songs_list[k])

CleanupRemoved ==
    /\ pc \in {"report", "verify", "done"}
    /\ CallsOf("remove_all_occurrences") # {}

\* C23: after the cleanup every song of the list that was at its position
\* before it is still there, also when the playlist holds one track id
\* more than once.
C23_CleanupKeepsRequired ==
    CleanupRemoved =>
        \A k \in 1..Min(Len(songs_list), Len(current_tracks)) :
            PlacedBeforeCleanup(k) =>
                (Len(remote) >= k /\ remote[k] = current_tracks[k])

\* ------------------------------------------- claims about sort_playlist
\* the next step of sort_playlist issues a move
SortMovesNext ==
    /\ pc = "sort_loop"
    /\ target_pos < Len(songs_list)
    /\ find_existing(current_tracks, desired_song) \notin {-1, sorted_count}

\* the next step of sort_playlist issues the cleanup's remove
SortRemovesNext ==
    /\ pc = "sort_loop"
    /\ target_pos = Len(songs_list)
    /\ sorted_count < Len(current_tracks)

\* C24: in sort_playlist the locally tracked order is the order of the
\* playlist before every move call and before the cleanup's remove, and
\* every move has a source index greater than the cursor it inserts before,
\* also for a list that names one song twice.
C24_LocalTracking ==
    /\ SortMovesNext =>
          /\ current_tracks = remote
          /\ find_existing(current_tracks, desired_song) > sorted_count
    /\ SortRemovesNext => current_tracks = remote

\* ------------------------------------- claims about plan and execution
\* determine_required_actions has run and found nothing to do
EmptyActionSet ==
    /\ pc # "main"
    /\ actions.remove = <<>>
    /\ actions.add = <<>>
    /\ actions.move = <<>>

\* C25: when the add, remove and move lists of the actions are empty, the
\* run issues no mutating call and leaves the playlist as it was.
C25_PlanExecutionAgree ==
    EmptyActionSet =>
        /\ \A i \in 1..Len(calls) : ~IsMutation(calls[i])
        /\ remote = remote0
====
